---- MODULE Spec2Model ----
(***************************************************************************)
(* Latent-revelation suppression engine of ostrich-egg.                    *)
(*                                                                         *)
(* The model follows ostrich_egg/engine.py (Engine), ostrich_egg/utils.py  *)
(* (should_redact_along_axis) and ostrich_egg/connectors/base.py (the      *)
(* registration of the scalar function).  The three SQL templates the      *)
(* kernel renders (redaction_context_view.sql, check_redacted_context.sql, *)
(* update_output_from_redaction_context.sql) are modelled from section 4.4 *)
(* of the specification.                                                   *)
(***************************************************************************)
EXTENDS Integers, Sequences, FiniteSets, TLC

\* ------------------------------------------------------------------ bounds
NumCounties == 3
NumMonths == 2
MaxCells == 3

\* ------------------------------------------------------- program constants
DEFAULT_THRESHOLD == 11
DEFAULT_MASKING_VALUE == "redacted"
IS_REDACTED_DESC == "is_redacted desc"
METRIC == "incidence"

\* values a source row can carry in the primary metric
Incidences == {5, 20}

\* the dataset's dimensions, in configuration order (DatasetConfig.dimensions)
active_dimensions == <<"county", "month">>
DimensionNames == {active_dimensions[i] : i \in 1..Len(active_dimensions)}
DimensionRange(d) == IF d = "county" THEN 1..NumCounties ELSE 1..NumMonths
MaxCoordinate == IF NumCounties > NumMonths THEN NumCounties ELSE NumMonths
Grid == {c \in [DimensionNames -> 1..MaxCoordinate] :
            \A d \in DimensionNames : c[d] \in DimensionRange(d)}

\* ------------------------------------------------------------------ helpers
RECURSIVE SumOver(_, _)
SumOver(f, S) ==
    IF S = {} THEN 0
    ELSE LET x == CHOOSE y \in S : TRUE IN f[x] + SumOver(f, S \ {x})

Range(s) == {s[i] : i \in 1..Len(s)}

\* every arrangement of a set of keys as a sequence
Permutations_(S) ==
    {p \in [1..Cardinality(S) -> S] : \A i, j \in 1..Cardinality(S) : i # j => p[i] # p[j]}

\* a nullable SQL value: <<>> is NULL, <<v>> is the value v
Null == <<>>
Some(v) == <<v>>
IsNull(x) == x = <<>>

EmptyTable == [c \in {} |-> 0]

\* ------------------------------------------------ the per-axis decision
\* mutant: the decision as it was before first_order_only
\* (redaction_utils.should_redact_along_axis), which redacts after a redacted
\* predecessor whatever first_order_only says
should_redact_along_axis_without_first_order(incidence, masked_value_count, minimum_threshold, is_anonymous, previous_cell_redacted, previous_cell_is_anonymous, run_sum_by_axis, first_order_only) ==
    IF ~is_anonymous THEN TRUE
    ELSE IF previous_cell_redacted = Some(FALSE) THEN FALSE
    ELSE IF run_sum_by_axis - incidence >= minimum_threshold /\ masked_value_count >= 2
         THEN FALSE
         ELSE ~IsNull(previous_cell_redacted)

\* utils.should_redact_along_axis, on Python values (None is Null)
should_redact_along_axis(incidence, masked_value_count, minimum_threshold, is_anonymous, previous_cell_redacted, previous_cell_is_anonymous, run_sum_by_axis, first_order_only) ==
    IF ~is_anonymous THEN TRUE
    ELSE IF previous_cell_redacted = Some(FALSE) THEN FALSE
    ELSE IF run_sum_by_axis - incidence >= minimum_threshold
         THEN IF first_order_only
              THEN previous_cell_is_anonymous = Some(FALSE) /\ masked_value_count < 2
              ELSE masked_value_count < 2
         ELSE TRUE

\* BaseConnector.load_custom_functions: create_function without null_handling,
\* so the substrate answers NULL for a row with a NULL argument and calls the
\* Python function on the other rows.
registered_should_redact_along_axis(incidence, masked_value_count, minimum_threshold, is_anonymous, previous_cell_redacted, previous_cell_is_anonymous, run_sum_by_axis, first_order_only) ==
    IF IsNull(previous_cell_redacted) \/ IsNull(previous_cell_is_anonymous)
    THEN Null
    ELSE Some(should_redact_along_axis(incidence, masked_value_count, minimum_threshold,
                                       is_anonymous, previous_cell_redacted,
                                       previous_cell_is_anonymous, run_sum_by_axis,
                                       first_order_only))

\* ------------------------------------------------ the suppression kernel
\* itertools.combinations(s, k), in the order itertools yields them
RECURSIVE combinations(_, _)
combinations(s, k) ==
    IF k = 0 THEN << <<>> >>
    ELSE IF Len(s) < k THEN <<>>
    ELSE LET with == combinations(Tail(s), k - 1)
             without == combinations(Tail(s), k)
         IN [i \in 1..Len(with) |-> <<Head(s)>> \o with[i]] \o without

\* sorted(..., key=len, reverse=True): longest first, equal lengths in the
\* order combinations produced them
RECURSIVE SetsOfSizeAtMost(_, _)
SetsOfSizeAtMost(dims, k) ==
    IF k = 0 THEN <<>>
    ELSE combinations(dims, k) \o SetsOfSizeAtMost(dims, k - 1)

dimension_sets_to_check == SetsOfSizeAtMost(active_dimensions, Len(active_dimensions))

\* the order_by_columns a process can build: the fixed list, or, with
\* redaction_order_dimensions, list(set(...)) whose order is the string
\* hash order of the process
OrderByColumnsChoices(dimension, redaction_order_dimensions) ==
    LET base == <<IS_REDACTED_DESC, dimension, METRIC>>
    IN IF redaction_order_dimensions = <<>>
       THEN {base}
       ELSE Permutations_(Range(redaction_order_dimensions) \cup Range(base))

\* value of one ORDER BY key on a row of the output table
OrderKey(out, c, k) ==
    IF k = IS_REDACTED_DESC THEN (IF out[c].is_redacted THEN 0 ELSE 1)
    ELSE IF k = METRIC THEN out[c].incidence
    ELSE c[k]

RECURSIVE SortsBefore(_, _, _, _)
SortsBefore(out, a, b, keys) ==
    IF keys = <<>> THEN FALSE
    ELSE LET ka == OrderKey(out, a, Head(keys))
             kb == OrderKey(out, b, Head(keys))
         IN ka < kb \/ (ka = kb /\ SortsBefore(out, a, b, Tail(keys)))

\* rows that tie on every ORDER BY key keep the row order of the table
WindowBefore(out, a, b, keys) == SortsBefore(out, a, b, keys \o active_dimensions)

\* redaction_context_view.sql: the window partition of a row for a dimension set
PartitionDimensions(dimension_set, dimension, non_summable_dimensions) ==
    (Range(dimension_set) \ {dimension}) \cup non_summable_dimensions

PartitionOf(out, c, pdims) == {b \in DOMAIN out : \A d \in pdims : b[d] = c[d]}

\* redaction_context_view.sql: one row of the context view
ContextRow(out, c, pdims, keys) ==
    LET P == PartitionOf(out, c, pdims)
        before == {b \in P : WindowBefore(out, b, c, keys)}
        prev == {b \in before : \A b2 \in before \ {b} : WindowBefore(out, b2, b, keys)}
        inc == [b \in P |-> out[b].incidence]
    IN [incidence |-> out[c].incidence,
        is_anonymous |-> out[c].is_anonymous,
        is_redacted |-> out[c].is_redacted,
        run_sum_by_axis |-> SumOver(inc, before \cup {c}),
        masked_value_count |-> Cardinality({b \in before \cup {c} : out[b].is_redacted}),
        previous_cell_redacted |->
            IF prev = {} THEN Null ELSE Some(out[CHOOSE b \in prev : TRUE].is_redacted),
        previous_cell_is_anonymous |->
            IF prev = {} THEN Null ELSE Some(out[CHOOSE b \in prev : TRUE].is_anonymous),
        axis_total |-> SumOver(inc, P),
        peers |-> P]

redaction_context(out, dimension_set, strategy, keys) ==
    LET pdims == PartitionDimensions(dimension_set, strategy.redacted_dimension,
                                     strategy.non_summable_dimensions)
    IN [c \in DOMAIN out |-> ContextRow(out, c, pdims, keys)]

\* check_redacted_context.sql: the rows the decision selects and that are
\* not redacted yet
check_redacted_context(ctx, threshold, first_order_only) ==
    {c \in DOMAIN ctx :
        /\ registered_should_redact_along_axis(
               ctx[c].incidence, ctx[c].masked_value_count, threshold,
               ctx[c].is_anonymous, ctx[c].previous_cell_redacted,
               ctx[c].previous_cell_is_anonymous, ctx[c].run_sum_by_axis,
               first_order_only) = Some(TRUE)
        /\ ~ctx[c].is_redacted}

\* update_output_from_redaction_context.sql
update_output_from_redaction_context(out, ctx, rows, pdims) ==
    [c \in DOMAIN out |->
        IF c \in rows
        THEN [out[c] EXCEPT
                !.is_redacted = TRUE,
                !.redaction_reason = Append(@, "latent revelation"),
                !.peer_group = Some([dimensions |-> pdims, members |-> ctx[c].peers]),
                !.redacted_peers = Some({b \in ctx[c].peers : ctx[b].is_redacted})]
        ELSE out[c]]

\* Engine.redaction_expression: the configured expression, or by default
\* "<first metric alias> < DEFAULT_THRESHOLD"
\* A configured expression "<first metric alias> < k" is held as Some(k), a
\* configured "<alias> > l and <alias> < k" as <<l, k>>.
redaction_expression(cfg, incidence) ==
    IF IsNull(cfg.redaction_expression) THEN incidence < DEFAULT_THRESHOLD
    ELSE IF Len(cfg.redaction_expression) = 1 THEN incidence < cfg.redaction_expression[1]
    ELSE incidence > cfg.redaction_expression[1] /\ incidence < cfg.redaction_expression[2]

\* Engine.anonymous_expression
anonymous_expression(cfg, incidence) == ~redaction_expression(cfg, incidence)

\* ------------------------------------------------ the single-axis peer pass
\* the coordinate that stands for the masking value in the target dimension
MASKED == 0

CellsOfPeer(res, c, dimension) == PartitionOf(res, c, DimensionNames \ {dimension})

\* lexicographic order on sequences of numbers of one length
RECURSIVE SeqLess(_, _)
SeqLess(a, b) ==
    IF a = <<>> THEN FALSE
    ELSE Head(a) < Head(b) \/ (Head(a) = Head(b) /\ SeqLess(Tail(a), Tail(b)))

Bit(b) == IF b THEN 1 ELSE 0

\* mutant: the rows of a peer group ordered with the anonymous cells first
PeerRowKeyAnonymousFirst(res, c, dimension) == <<Bit(~res[c].is_anonymous), res[c].incidence, c[dimension]>>

\* order by is_anonymous, <metrics>, dimension_value within a peer group
PeerRowKey(res, c, dimension) == <<Bit(res[c].is_anonymous), res[c].incidence, c[dimension]>>

\* this_peer_relation: the rows of a peer group, smallest cells first
RECURSIVE SortedRows(_, _, _)
SortedRows(res, P, dimension) ==
    IF P = {} THEN <<>>
    ELSE LET first == CHOOSE c \in P : \A b \in P \ {c} :
                          SeqLess(PeerRowKey(res, c, dimension), PeerRowKey(res, b, dimension))
         IN <<first>> \o SortedRows(res, P \ {first}, dimension)

\* select distinct peer_id ... order by [redaction order dimensions,]
\* is_anonymous, <metrics>, peer_id: a peer group takes the place of its first row
PeerKey(res, P, dimension, redaction_order_dimensions) ==
    LET first == SortedRows(res, P, dimension)[1]
        held == SelectSeq(active_dimensions, LAMBDA d : d # dimension)
        order_dims == SelectSeq(redaction_order_dimensions, LAMBDA d : d \in Range(held))
    IN [i \in 1..Len(order_dims) |-> first[order_dims[i]]]
       \o <<Bit(res[first].is_anonymous), res[first].incidence>>
       \o [i \in 1..Len(held) |-> first[held[i]]]

RECURSIVE SortedPeers(_, _, _, _)
SortedPeers(res, peers, dimension, rod) ==
    IF peers = {} THEN <<>>
    ELSE LET first == CHOOSE P \in peers : \A Q \in peers \ {P} :
                          SeqLess(PeerKey(res, P, dimension, rod), PeerKey(res, Q, dimension, rod))
         IN <<first>> \o SortedPeers(res, peers \ {first}, dimension, rod)

\* the working subtotal query: the metric summed over the rows of identify_peers
\* whose dimension_value is one of seen_values, through the anonymous expression
working_total_is_fine(cfg, res, dimension, seen_values) ==
    LET rows == {c \in DOMAIN res : c[dimension] \in seen_values}
    IN anonymous_expression(cfg, SumOver([c \in DOMAIN res |-> res[c].incidence], rows))

\* Engine._collect_redactions_from_peer_relation: the while loop from row i on
RECURSIVE collect_from_row(_, _, _, _, _, _, _, _)
collect_from_row(cfg, res, dimension, rows, i, seen, values_to_mask, must_anonymize_next) ==
    IF i > Len(rows)
    THEN [values_to_mask |-> values_to_mask, must_anonymize_next |-> must_anonymize_next]
    ELSE
      LET value_is_fine == res[rows[i]].is_anonymous
          dimension_value == rows[i][dimension]
          seen_values == seen \cup {dimension_value}
          total_is_fine == IF i > 1
                           THEN working_total_is_fine(cfg, res, dimension, seen_values)
                           ELSE value_is_fine
          first_value_is_good == i = 1 /\ value_is_fine
          sufficient_prior_redaction == Len(values_to_mask) >= 2 /\ total_is_fine
          man == IF sufficient_prior_redaction THEN FALSE ELSE must_anonymize_next
          masked == Append(values_to_mask, dimension_value)
      IN IF ~man /\ first_value_is_good
         THEN [values_to_mask |-> values_to_mask, must_anonymize_next |-> man]
         ELSE IF ~value_is_fine
         THEN collect_from_row(cfg, res, dimension, rows, i + 1, seen_values, masked, TRUE)
         ELSE IF man /\ value_is_fine
         THEN [values_to_mask |-> masked, must_anonymize_next |-> FALSE]
         ELSE IF ~sufficient_prior_redaction \/ man
         THEN collect_from_row(cfg, res, dimension, rows, i + 1, seen_values, masked,
                               IF Len(masked) >= 2 /\ (total_is_fine \/ value_is_fine)
                               THEN FALSE ELSE man)
         ELSE IF sufficient_prior_redaction /\ value_is_fine
         THEN [values_to_mask |-> values_to_mask, must_anonymize_next |-> FALSE]
         ELSE collect_from_row(cfg, res, dimension, rows, i + 1, seen_values,
                               values_to_mask, man)

\* Engine._collect_redactions_from_peer_relation
collect_redactions_from_peer_relation(cfg, res, dimension, P, must_anonymize_next) ==
    collect_from_row(cfg, res, dimension, SortedRows(res, P, dimension), 1, {}, <<>>,
                     must_anonymize_next)

\* Engine.get_dimension_values_to_redact_with_latency_check: the loop over
\* the peer groups, must_anonymize_next carried from one group to the next
RECURSIVE redactions_of_peers(_, _, _, _, _, _)
redactions_of_peers(cfg, res, dimension, peers, k, must_anonymize_next) ==
    IF k > Len(peers) THEN <<>>
    ELSE LET r == collect_redactions_from_peer_relation(cfg, res, dimension, peers[k],
                                                        must_anonymize_next)
             any == CHOOSE c \in peers[k] : TRUE
             rest == redactions_of_peers(cfg, res, dimension, peers, k + 1,
                                         r.must_anonymize_next)
         IN IF r.values_to_mask = <<>> THEN rest
            ELSE <<[other_dimension_values |->
                       [d \in DimensionNames \ {dimension} |-> any[d]],
                    remapped_lookup |-> Range(r.values_to_mask)]>> \o rest

get_dimension_values_to_redact_with_latency_check(cfg, res, dimension) ==
    LET peers == {CellsOfPeer(res, c, dimension) : c \in DOMAIN res}
    IN redactions_of_peers(cfg, res, dimension,
                           SortedPeers(res, peers, dimension, cfg.redaction_order_dimensions),
                           1, FALSE)

\* make_when_statements_from_redaction: the coordinates a redaction rewrites
IsRewritten(c, dimension, redaction_list) ==
    \E k \in 1..Len(redaction_list) :
        /\ \A d \in DOMAIN redaction_list[k].other_dimension_values :
              c[d] = redaction_list[k].other_dimension_values[d]
        /\ c[dimension] \in redaction_list[k].remapped_lookup

\* mutant: the dimensions selected without the accumulated case expressions
RewrittenNowhere(c, dimension, redaction_list) == c

\* dimensions_as_sql_expressions with the accumulated case expressions
Rewritten(c, dimension, redaction_list) ==
    IF IsRewritten(c, dimension, redaction_list) THEN [c EXCEPT ![dimension] = MASKED] ELSE c

\* make_updated_expressions: one case expression per dimension that has
\* redactions, each evaluated on the values of the source row
RewrittenAll(c, reds) == [d \in DimensionNames |-> Rewritten(c, d, reds[d])[d]]

\* get_rendered_aggregation_query: the rows of a table grouped under the
\* accumulated case expressions, is_anonymous from the anonymous expression
aggregate(cfg, src, reds) ==
    LET cells == {RewrittenAll(c, reds) : c \in DOMAIN src}
    IN [n \in cells |->
          LET total == SumOver(src, {c \in DOMAIN src : RewrittenAll(c, reds) = n})
          IN [incidence |-> total, is_anonymous |-> anonymous_expression(cfg, total)]]

\* ------------------------------------------------------------ the metrics
\* config.Metric; is_subsequent defaults to the opposite of is_initial
Metric(aggregation, column, alias, is_initial) ==
    [aggregation |-> aggregation, column |-> column, alias |-> alias,
     is_initial |-> is_initial, is_subsequent |-> ~is_initial]

\* Metric.should_include_in_initial_state
should_include_in_initial_state(metric, initial) ==
    LET initial_conditions_match == metric.is_initial = initial
        counter_condition_does_not_exclude == ~initial /\ metric.is_subsequent
    IN initial_conditions_match \/ counter_condition_does_not_exclude

\* f"m_{index}", index counted from 0
DefaultAlias(index) == <<"m_0", "m_1", "m_2", "m_3">>[index + 1]

\* metric.alias or f"m_{index}"
AliasAt(metric, index) ==
    IF IsNull(metric.alias) \/ metric.alias = Some("")
    THEN Some(DefaultAlias(index)) ELSE metric.alias

\* Engine.metrics (setter).  given is DatasetConfig.metrics, <<>> for None or
\* an empty list.  The setter works on the list object of the dataset, so
\* what it appends and assigns is seen through DatasetConfig.metrics too,
\* except when it builds the default list, which only the engine holds.
\* The result is [engine |-> Engine.metrics, dataset |-> DatasetConfig.metrics].
metrics_setter(given, unit_level_id) ==
    LET defaulted == IF given = <<>>
                     THEN <<Metric(IF IsNull(unit_level_id) THEN "count" ELSE "count_distinct",
                                   IF IsNull(unit_level_id) THEN "*" ELSE unit_level_id[1],
                                   Null, TRUE)>>
                     ELSE given
        aliased == [i \in 1..Len(defaulted) |->
                       [defaulted[i] EXCEPT !.alias = AliasAt(defaulted[i], i - 1)]]
        appended == IF Len(aliased) = 1 /\ aliased[1].is_initial
                    THEN Append(aliased, Metric("sum", aliased[1].alias[1], aliased[1].alias, FALSE))
                    ELSE aliased
        no_initial == \A i \in 1..Len(appended) : ~appended[i].is_initial
        no_subsequent == \A i \in 1..Len(appended) : appended[i].is_initial
        marked == [i \in 1..Len(appended) |->
                      IF no_initial THEN [appended[i] EXCEPT !.is_initial = TRUE]
                      ELSE IF no_subsequent THEN [appended[i] EXCEPT !.is_subsequent = TRUE]
                      ELSE appended[i]]
    IN [engine |-> IF no_initial \/ no_subsequent THEN marked
                   ELSE SelectSeq(marked, LAMBDA m : m.is_initial)
                        \o SelectSeq(marked, LAMBDA m : ~m.is_initial),
        dataset |-> IF given = <<>> THEN given ELSE marked]

VARIABLES
    config,            \* Config / DatasetConfig of the run
    source,            \* the loaded source table: cell coordinate -> primary metric
    catalog,           \* names of the tables present in the substrate
    result,            \* table "result": cell -> [incidence, is_anonymous]
    output,            \* table "output": cell -> row with the annotation columns
    pc,                \* position of the orchestrator
    strategy_index,    \* index of the strategy being processed
    order_by_columns,  \* window ordering of the kernel
    set_index,         \* index into dimension_sets_to_check
    to_redact,         \* relation "to_redact"
    iterations,        \* passes of the inner while loop in the current kernel call
    kernel_calls,      \* kernel calls made on the current output table
    final_source_table,
    written,           \* the emitted file
    redactions,        \* Engine.redactions: dimension -> list of redactions
    process,           \* 1 for the first engine process, 2 for a later one
    first_written,     \* the file the first engine process emitted
    dataset,           \* the active DatasetConfig: name, metrics, unit_level_id, source_file
    metrics,           \* Engine.metrics
    table_name,        \* connector.table_name
    index,             \* index of the active dataset in config.datasets
    cache_tables_in_memory,
    source_file_to_table_lkp,  \* written file -> name of the table retained for it
    retained,          \* content of the table retained under an earlier dataset's name
    decision,          \* a call of should_redact_along_axis: arguments and what came back
    flagged            \* history: the cells the earlier strategies of the dataset flagged

vars == <<config, source, catalog, result, output, pc, strategy_index, order_by_columns,
          set_index, to_redact, iterations, kernel_calls, final_source_table, written,
          redactions, process, first_written, dataset, metrics, table_name, index,
          cache_tables_in_memory, source_file_to_table_lkp, retained, decision,
          flagged>>

\* ------------------------------------------------------------ configurations
MarkRedactedStrategies ==
    {[strategy |-> "mark-redacted", redacted_dimension |-> d,
      non_summable_dimensions |-> ns, first_order_only |-> fo,
      masking_value |-> DEFAULT_MASKING_VALUE] :
        d \in DimensionNames, ns \in {{}, {"month"}}, fo \in BOOLEAN}

ReplaceWithRedactedStrategies ==
    {[strategy |-> "replace-with-redacted", redacted_dimension |-> d,
      non_summable_dimensions |-> ns, masking_value |-> DEFAULT_MASKING_VALUE] :
        d \in DimensionNames, ns \in {{}, {"month"}}}

NoRedactions == [d \in DimensionNames |-> <<>>]

RedactionOrderChoices == {<<>>, <<"month">>}

SourceTables ==
    UNION {[S -> Incidences] :
             S \in {T \in SUBSET Grid : Cardinality(T) \in 1..MaxCells}}

\* the model stops counting passes of the while loop here
IterationCap == MaxCells * Len(dimension_sets_to_check) + 1

CurrentStrategy == config.suppression_strategies[strategy_index]

CurrentDimensionSet == dimension_sets_to_check[set_index]

\* an element of suppression_strategies that the configuration kept as a plain
\* dict, to be loaded by load_strategy_from_dict when it is processed
IsDict(st) == "held_as" \in DOMAIN st /\ st.held_as = "dict"

\* the strategy has a parameters object
HasParameters(st) == "redacted_dimension" \in DOMAIN st

\* the to_redact relation for the current output table and dimension set
ToRedact(out, dimension_set, strategy, keys) ==
    check_redacted_context(redaction_context(out, dimension_set, strategy, keys),
                           config.threshold, strategy.first_order_only)

kernelVars == <<order_by_columns, set_index, to_redact, iterations, kernel_calls>>
inputVars == <<config, source>>
processVars == <<process, first_written>>
datasetVars == <<dataset, metrics, table_name, index, cache_tables_in_memory,
                 source_file_to_table_lkp, retained>>

\* ----------------------------------------------------------- the datasets
\* Python None where the code holds a table name
None == ""

\* f"{DEFAULT_TABLE_NAME}_{index}"
DefaultDatasetName(i) == <<"dataset_0", "dataset_1", "dataset_2">>[i + 1]

\* the file a dataset is written to: dataset.output_file, by default
\* f"{table_name}.parquet"
OutputFile(name) == <<name, "parquet">>

\* a pre-aggregated source: its single metric sums the column of the counts
\* (Metric(aggregation=SUM, column=..., alias=...) as the tests configure it)
PlainMetrics == <<Metric("sum", METRIC, Some(METRIC), FALSE)>>

\* columns: the columns of the source besides the dimensions
PlainDataset ==
    [name |-> Some("dataset"), metrics |-> PlainMetrics, unit_level_id |-> Null,
     source_file |-> Null, columns |-> {METRIC}]

NothingRetained == [name |-> None, rows |-> EmptyTable, columns |-> {}]

\* Engine.get_metric_aliases(initial): the metrics of a phase keyed by alias,
\* a later metric replacing an earlier one of the same alias
get_metric_aliases(metric_list, initial) ==
    LET included == {i \in 1..Len(metric_list) :
                        should_include_in_initial_state(metric_list[i], initial)}
        aliases == {metric_list[i].alias[1] : i \in included}
    IN [a \in aliases |->
           metric_list[CHOOSE i \in included :
                          /\ metric_list[i].alias[1] = a
                          /\ \A j \in included : metric_list[j].alias[1] = a => j <= i]]

\* get_metric_sql_list(initial) rendered over a table with these columns: the
\* substrate binds every metric of the phase to a column of the table, and a
\* select list without a metric is not a query
Computable(metric_list, initial, columns) ==
    LET by_alias == get_metric_aliases(metric_list, initial)
    IN /\ DOMAIN by_alias # {}
       /\ \A a \in DOMAIN by_alias : by_alias[a].column \in columns \cup {"*"}

\* the aliases the aggregated table carries after a phase
AliasesOf(metric_list, initial) == DOMAIN get_metric_aliases(metric_list, initial)

\* Engine.active_dataset (setter): the dataset and the engine's metric list
\* once the dataset ds was made the active one
Activated(ds) ==
    LET set == metrics_setter(ds.metrics, ds.unit_level_id)
    IN [dataset |-> [ds EXCEPT !.metrics = set.dataset], metrics |-> set.engine]

\* Engine.__init__ for a configuration whose first dataset is ds
Constructed(ds, cache) ==
    /\ dataset = Activated(ds).dataset
    /\ metrics = Activated(ds).metrics
    /\ table_name = (IF IsNull(ds.name) THEN None ELSE ds.name[1])
    /\ index = 0
    /\ cache_tables_in_memory = cache
    /\ source_file_to_table_lkp = EmptyTable
    /\ retained = NothingRetained
    /\ decision = Null
    /\ flagged = {}

\* the engine of PlainDataset when run_one_dataset has loaded its source:
\* the dataset was activated by the constructor and again by run_one_dataset
SingleDataset ==
    /\ dataset = Activated(Activated(PlainDataset).dataset).dataset
    /\ metrics = Activated(Activated(PlainDataset).dataset).metrics
    /\ table_name = "dataset"
    /\ index = 0
    /\ cache_tables_in_memory = FALSE
    /\ source_file_to_table_lkp = EmptyTable
    /\ retained = NothingRetained
    /\ decision = Null
    /\ flagged = {}

Init ==
    /\ config \in [threshold : {DEFAULT_THRESHOLD},
                    redaction_expression : {Null},
                    allow_zeroes : {TRUE},
                    dimensions : {active_dimensions},
                    redaction_order_dimensions : RedactionOrderChoices,
                    suppression_strategies : {<<st>> : st \in MarkRedactedStrategies}]
    /\ source \in SourceTables
    /\ catalog = {"dataset"}
    /\ result = EmptyTable
    /\ output = EmptyTable
    /\ pc = "loaded"
    /\ strategy_index = 1
    /\ order_by_columns = <<>>
    /\ set_index = 0
    /\ to_redact = {}
    /\ iterations = 0
    /\ kernel_calls = 0
    /\ final_source_table = "dataset"
    /\ written = EmptyTable
    /\ redactions = NoRedactions
    /\ process = 1
    /\ first_written = EmptyTable
    /\ SingleDataset

\* get_rendered_aggregation_query for the initial aggregation
initial_aggregation(cfg, src) ==
    [c \in DOMAIN src |->
        [incidence |-> src[c], is_anonymous |-> anonymous_expression(cfg, src[c])]]

\* Engine.run_aggregation(initial=True): the cell table with is_anonymous
run_aggregation ==
    /\ pc = "loaded"
    /\ config.dimensions # <<>>
    /\ result' = aggregate(config, source, redactions)
    /\ catalog' = catalog \cup {"result"}
    /\ pc' = "strategies"
    /\ UNCHANGED <<flagged, decision, datasetVars, processVars, inputVars, redactions, output, strategy_index, kernelVars, final_source_table, written>>

\* mutant: the initial update sets is_redacted and leaves redaction_reason null
modify_output_without_reason ==
    /\ pc = "strategies"
    /\ strategy_index <= Len(config.suppression_strategies)
    /\ ~IsDict(CurrentStrategy)
    /\ CurrentStrategy.strategy = "mark-redacted"
    /\ output' = [c \in DOMAIN result |->
                    [incidence |-> result[c].incidence,
                     is_anonymous |-> result[c].is_anonymous,
                     is_redacted |-> ~result[c].is_anonymous,
                     peer_group |-> Null,
                     redacted_peers |-> Null,
                     redaction_reason |-> <<>>]]
    /\ catalog' = catalog \cup {"output"}
    /\ kernel_calls' = 0
    /\ pc' = "modified"
    /\ UNCHANGED <<flagged, decision, datasetVars, processVars, inputVars, redactions, result, strategy_index, order_by_columns,
                   set_index, to_redact, iterations, final_source_table, written>>

\* mutant: the update "set is_redacted = true ... where not is_anonymous" is
\* left out, every row keeps the column default
modify_output_without_initial_update ==
    /\ pc = "strategies"
    /\ strategy_index <= Len(config.suppression_strategies)
    /\ ~IsDict(CurrentStrategy)
    /\ CurrentStrategy.strategy = "mark-redacted"
    /\ output' = [c \in DOMAIN result |->
                    [incidence |-> result[c].incidence,
                     is_anonymous |-> result[c].is_anonymous,
                     is_redacted |-> FALSE,
                     peer_group |-> Null,
                     redacted_peers |-> Null,
                     redaction_reason |-> <<>>]]
    /\ catalog' = catalog \cup {"output"}
    /\ kernel_calls' = 0
    /\ pc' = "modified"
    /\ UNCHANGED <<flagged, decision, datasetVars, processVars, inputVars, redactions, result, strategy_index, order_by_columns, set_index,
                   to_redact, iterations, final_source_table, written>>

\* mutant: the copy of result blanks the metric of the rows it flags
modify_output_masking_metric ==
    /\ pc = "strategies"
    /\ strategy_index <= Len(config.suppression_strategies)
    /\ ~IsDict(CurrentStrategy)
    /\ CurrentStrategy.strategy = "mark-redacted"
    /\ output' = [c \in DOMAIN result |->
                    [incidence |-> IF result[c].is_anonymous THEN result[c].incidence ELSE 0,
                     is_anonymous |-> result[c].is_anonymous,
                     is_redacted |-> ~result[c].is_anonymous,
                     peer_group |-> Null,
                     redacted_peers |-> Null,
                     redaction_reason |->
                        IF ~result[c].is_anonymous
                        THEN <<"value meets redaction criteria">> ELSE <<>>]]
    /\ catalog' = catalog \cup {"output"}
    /\ kernel_calls' = 0
    /\ pc' = "modified"
    /\ UNCHANGED <<flagged, decision, datasetVars, processVars, inputVars, redactions, result, strategy_index, order_by_columns, set_index,
                   to_redact, iterations, final_source_table, written>>

\* Engine.modify_output_for_redaction, as the first step of mark_redacted
modify_output_for_redaction ==
    /\ pc = "strategies"
    /\ strategy_index <= Len(config.suppression_strategies)
    /\ ~IsDict(CurrentStrategy)
    /\ CurrentStrategy.strategy = "mark-redacted"
    /\ output' = [c \in DOMAIN result |->
                    [incidence |-> result[c].incidence,
                     is_anonymous |-> result[c].is_anonymous,
                     is_redacted |-> ~result[c].is_anonymous,
                     peer_group |-> Null,
                     redacted_peers |-> Null,
                     redaction_reason |->
                        IF ~result[c].is_anonymous
                        THEN <<"value meets redaction criteria">> ELSE <<>>]]
    /\ catalog' = catalog \cup {"output"}
    /\ kernel_calls' = 0
    /\ pc' = "modified"
    /\ UNCHANGED <<flagged, decision, datasetVars, processVars, inputVars, redactions, result, strategy_index, order_by_columns, set_index,
                   to_redact, iterations, final_source_table, written>>

\* Engine.redact_from_non_anonymous_cells up to the loop over the dimension sets
kernel_enter ==
    /\ pc = "modified"
    /\ HasParameters(CurrentStrategy)
    /\ dataset.metrics # <<>>
    /\ IF kernel_calls = 0
       THEN order_by_columns' \in OrderByColumnsChoices(CurrentStrategy.redacted_dimension,
                                                        config.redaction_order_dimensions)
       ELSE order_by_columns' = order_by_columns
    /\ set_index' = 1
    /\ to_redact' = {}
    /\ iterations' = 0
    /\ kernel_calls' = kernel_calls + 1
    /\ pc' = "for"
    /\ UNCHANGED <<flagged, decision, datasetVars, processVars, inputVars, redactions, catalog, result, output, strategy_index,
                   final_source_table, written>>

\* Engine.redact_from_non_anonymous_cells when the dataset configures no
\* metrics: order_by_columns reads self.active_dataset.metrics[0], and the
\* default metrics are held by the engine only
kernel_fails ==
    /\ pc = "modified"
    /\ HasParameters(CurrentStrategy)
    /\ dataset.metrics = <<>>
    /\ pc' = "TypeError"
    /\ UNCHANGED <<flagged, decision, datasetVars, processVars, inputVars, redactions, catalog, result,
                   output, strategy_index, kernelVars, final_source_table, written>>

\* the head of one pass of the for loop: the context table and to_redact
create_redaction_context ==
    /\ pc = "for"
    /\ to_redact' = ToRedact(output, CurrentDimensionSet, CurrentStrategy, order_by_columns)
    /\ catalog' = catalog \cup {"redaction_context"}
    /\ pc' = "while"
    /\ UNCHANGED <<flagged, decision, datasetVars, processVars, inputVars, redactions, result, output, strategy_index, order_by_columns, set_index,
                   iterations, kernel_calls, final_source_table, written>>

\* mutant: the pass re-creates the context and to_redact without executing
\* the update of the output table
while_pass_without_update ==
    /\ pc = "while"
    /\ to_redact # {}
    /\ iterations < IterationCap
    /\ to_redact' = ToRedact(output, CurrentDimensionSet, CurrentStrategy, order_by_columns)
    /\ iterations' = iterations + 1
    /\ UNCHANGED <<flagged, decision, datasetVars, processVars, inputVars, redactions, catalog, result, output, pc, strategy_index,
                   order_by_columns, set_index, kernel_calls, final_source_table, written>>

\* one pass of the inner while loop
while_pass ==
    /\ pc = "while"
    /\ to_redact # {}
    /\ iterations < IterationCap
    /\ LET pdims == PartitionDimensions(CurrentDimensionSet,
                                        CurrentStrategy.redacted_dimension,
                                        CurrentStrategy.non_summable_dimensions)
           ctx == redaction_context(output, CurrentDimensionSet, CurrentStrategy,
                                    order_by_columns)
           updated == update_output_from_redaction_context(output, ctx, to_redact, pdims)
       IN /\ output' = updated
          /\ to_redact' = ToRedact(updated, CurrentDimensionSet, CurrentStrategy,
                                   order_by_columns)
    /\ iterations' = iterations + 1
    /\ UNCHANGED <<flagged, decision, datasetVars, processVars, inputVars, redactions, catalog, result, pc, strategy_index, order_by_columns,
                   set_index, kernel_calls, final_source_table, written>>

\* the while loop ends: the next dimension set, or the kernel returns
while_exit ==
    /\ pc = "while"
    /\ to_redact = {}
    /\ IF set_index < Len(dimension_sets_to_check)
       THEN set_index' = set_index + 1 /\ pc' = "for"
       ELSE set_index' = set_index /\ pc' = "returned"
    /\ UNCHANGED <<flagged, decision, datasetVars, processVars, inputVars, redactions, catalog, result, output, strategy_index, order_by_columns,
                   to_redact, iterations, kernel_calls, final_source_table, written>>

\* Engine.mark_redacted after the kernel returned, and the loop of
\* process_suppression_strategies moving on
mark_redacted_return ==
    /\ pc = "returned"
    /\ final_source_table' = "output"
    /\ strategy_index' = strategy_index + 1
    /\ flagged' = flagged \cup {c \in DOMAIN output : output[c].is_redacted}
    /\ pc' = "strategies"
    /\ UNCHANGED <<decision, datasetVars, processVars, inputVars, redactions, catalog, result, output, kernelVars, written>>

\* what the substrate makes of the queries of replace_with_redacted: the
\* subsequent-phase metrics over result for identify_peers, then over
\* connector.table_name for run_aggregation()
ReplaceOutcome ==
    IF ~Computable(metrics, FALSE, AliasesOf(metrics, TRUE)) THEN "BinderException"
    ELSE IF table_name \notin catalog THEN "CatalogException"
    ELSE IF ~Computable(metrics, FALSE, dataset.columns) THEN "BinderException"
    ELSE "ok"

\* Engine.replace_with_redacted, and the loop of process_suppression_strategies
\* moving on: the redactions of the single-axis pass are appended to
\* Engine.redactions, the aggregation runs again under the rewritten
\* dimension and output is replaced by its result
replace_with_redacted ==
    /\ pc = "strategies"
    /\ strategy_index <= Len(config.suppression_strategies)
    /\ ~IsDict(CurrentStrategy)
    /\ CurrentStrategy.strategy = "replace-with-redacted"
    /\ ReplaceOutcome = "ok"
    /\ LET dimension == CurrentStrategy.redacted_dimension
           found == get_dimension_values_to_redact_with_latency_check(config, result, dimension)
           all == [redactions EXCEPT ![dimension] = @ \o found]
           aggregated == aggregate(config, source, all)
       IN /\ redactions' = all
          /\ result' = aggregated
          /\ output' = aggregated
    /\ catalog' = catalog \cup {"output", "identify_peers"}
    /\ strategy_index' = strategy_index + 1
    /\ UNCHANGED <<flagged, decision, datasetVars, processVars, inputVars, pc, kernelVars, final_source_table, written>>

\* Engine.replace_with_redacted when the substrate rejects run_aggregation():
\* the query reads connector.table_name under the subsequent-phase metrics
replace_with_redacted_fails ==
    /\ pc = "strategies"
    /\ strategy_index <= Len(config.suppression_strategies)
    /\ ~IsDict(CurrentStrategy)
    /\ CurrentStrategy.strategy = "replace-with-redacted"
    /\ HasParameters(CurrentStrategy)
    /\ ReplaceOutcome # "ok"
    /\ pc' = ReplaceOutcome
    /\ catalog' = catalog \cup {"output"}
    /\ UNCHANGED <<flagged, decision, datasetVars, processVars, inputVars, redactions, result,
                   output, strategy_index, kernelVars, final_source_table, written>>

\* the table run_one_dataset took the source from: the dataset's own table,
\* or the retained table of an earlier dataset when the source file was
\* found in source_file_to_table_lkp
LocalTableName == IF table_name \in catalog THEN table_name ELSE retained.name

\* the metric columns of the output table: those of result under
\* mark-redacted, those of the subsequent phase otherwise
OutputColumns(out) ==
    AliasesOf(metrics, \A c \in DOMAIN out : "is_redacted" \in DOMAIN out[c])

\* Engine.run_one_dataset from write_anonymized_dataset_to_file on: the file
\* is written, the output is kept under the dataset's name or the dataset's
\* table is dropped, and the output table is dropped
write_output(out) ==
    /\ written' = out
    /\ IF cache_tables_in_memory
       THEN /\ source_file_to_table_lkp' =
                   (OutputFile(LocalTableName) :> table_name) @@ source_file_to_table_lkp
            /\ retained' = [name |-> table_name,
                            rows |-> [c \in DOMAIN out |-> out[c].incidence],
                            columns |-> OutputColumns(out)]
            /\ catalog' = (catalog \cup {table_name}) \ {"output"}
       ELSE /\ catalog' = catalog \ {table_name, "output"}
            /\ UNCHANGED <<source_file_to_table_lkp, retained>>
    /\ pc' = "emitted"
    /\ UNCHANGED <<flagged, decision, dataset, metrics, table_name, index, cache_tables_in_memory,
                   processVars, inputVars, redactions, result, output, strategy_index,
                   kernelVars, final_source_table>>

\* Engine.run_one_dataset after the strategies when a strategy created the
\* output table: make_anonymized_dataset leaves it as it is
write_anonymized_dataset ==
    /\ pc = "strategies"
    /\ strategy_index > Len(config.suppression_strategies)
    /\ "output" \in catalog
    /\ write_output(output)

Next ==
    \/ run_aggregation
    \/ modify_output_for_redaction
    \/ kernel_enter
    \/ create_redaction_context
    \/ while_pass
    \/ while_exit
    \/ mark_redacted_return
    \/ write_anonymized_dataset

Spec == Init /\ [][Next]_vars

\* ------------------------------------------------------------------- claims
\* C1 (primary closure): in every state of the output table, from the initial
\* assignment of modify_output_for_redaction through every pass of the kernel
\* to the emitted file, a cell with is_anonymous = false has is_redacted = true.
C1_PrimaryClosure ==
    /\ \A c \in DOMAIN output : ~output[c].is_anonymous => output[c].is_redacted
    /\ \A c \in DOMAIN written : ~written[c].is_anonymous => written[c].is_redacted

C1_Witness ==
    /\ pc = "emitted"
    /\ \E c \in DOMAIN written : ~written[c].is_anonymous
    /\ \E c \in DOMAIN written : written[c].is_anonymous /\ written[c].is_redacted

\* the partitions the claims quantify over: dimension sets that contain the
\* target, rows that agree on the other dimensions of the set
RedactedDimension == config.suppression_strategies[1].redacted_dimension

TargetDimensionSets ==
    {Range(dimension_sets_to_check[i]) : i \in 1..Len(dimension_sets_to_check)}
        \cap {S \in SUBSET DimensionNames : RedactedDimension \in S}

NonSummable == config.suppression_strategies[1].non_summable_dimensions

CurrentStrategyIsMark == config.suppression_strategies[1].strategy = "mark-redacted"

\* dimensions named by a strategy as never summed across stay constant in
\* every partition
TargetPartitions(out) ==
    {PartitionOf(out, c, (S \ {RedactedDimension}) \cup NonSummable) :
        c \in DOMAIN out, S \in TargetDimensionSets}

RedactedCells(out, P) == {c \in P : out[c].is_redacted}

KernelReturned == pc = "returned" /\ kernel_calls = 1

\* C2 (two-mask rule): when the kernel has returned, no partition of a
\* dimension set containing the target holds exactly one redacted cell.
\* Stated for the partitions with at least two cells, where a second
\* redaction is possible at all.
C2_TwoMaskRule ==
    KernelReturned =>
        \A P \in TargetPartitions(output) :
            Cardinality(P) >= 2 => Cardinality(RedactedCells(output, P)) # 1

\* C3 (subtraction safety): when the kernel has returned, in every partition
\* with a redacted and a non-redacted cell the total of the redacted cells
\* (axis total minus the visible cells) does not satisfy the redaction predicate.
C3_SubtractionSafety ==
    KernelReturned =>
        \A P \in TargetPartitions(output) :
            LET R == RedactedCells(output, P)
            IN (R # {} /\ R # P) =>
                  ~redaction_expression(config, SumOver([c \in P |-> output[c].incidence], R))

\* the line through a cell along dimension d: the cells that differ only in d
LineAlong(out, c, d) == {b \in DOMAIN out : \A e \in DimensionNames \ {d} : b[e] = c[e]}

\* C4 (every axis): in the table emitted by mark-redacted, every line of at
\* least two cells along any dimension, target or not, holds no redacted cell
\* or at least two.  Lines along a dimension configured as non-summable are
\* left out: their cells are never added up.
C4_EveryAxis ==
    pc = "emitted" =>
        \A c \in DOMAIN written : \A d \in DimensionNames \ NonSummable :
            Cardinality(LineAlong(written, c, d)) >= 2 =>
                Cardinality(RedactedCells(written, LineAlong(written, c, d))) # 1

\* C5 (fixed point on return): when the kernel returns, no enumerated
\* dimension set has a row with should_redact true and is_redacted false.
C5_FixedPointOnReturn ==
    KernelReturned =>
        \A i \in 1..Len(dimension_sets_to_check) :
            ToRedact(output, dimension_sets_to_check[i], CurrentStrategy,
                     order_by_columns) = {}

\* C6 (termination): every pass of the inner while loop that starts with a
\* non-empty to_redact turns at least one cell from not redacted to redacted,
\* and a kernel call makes at most |rows| x |subsets| passes.
C6_Termination ==
    /\ [](iterations <= Cardinality(DOMAIN output) * Len(dimension_sets_to_check))
    /\ [][(pc = "while" /\ to_redact # {} /\ iterations' = iterations + 1) =>
            \E c \in DOMAIN output : ~output[c].is_redacted /\ output'[c].is_redacted]_vars

C6_Witness == pc = "returned" /\ iterations >= 2

\* a second call of the kernel on the output table of a completed call, with
\* the same strategy parameters
kernel_again ==
    /\ pc = "returned"
    /\ kernel_calls = 1
    /\ pc' = "modified"
    /\ UNCHANGED <<flagged, decision, datasetVars, processVars, inputVars, redactions, catalog, result, output, strategy_index, kernelVars,
                   final_source_table, written>>

NextKernelTwice == Next \/ kernel_again

SpecKernelTwice == Init /\ [][NextKernelTwice]_vars

\* C7 (idempotence): a second call of the kernel on the output of a completed
\* call finds no row to redact, so it makes no pass of the while loop and
\* changes no is_redacted flag and no annotation column.
C7_Idempotence ==
    /\ [](kernel_calls = 2 => (to_redact = {} /\ iterations = 0))
    /\ [][(kernel_calls = 2 /\ kernel_calls' = 2) => output' = output]_vars

\* ---------------------------------------------------- a second engine process
\* Engine.__init__ of a new process on the same configuration: nothing of the
\* first process is kept but the file it wrote
second_process(new_config, new_source) ==
    /\ pc = "emitted"
    /\ process = 1
    /\ process' = 2
    /\ first_written' = written
    /\ source' = new_source
    /\ catalog' = {"dataset"}
    /\ result' = EmptyTable
    /\ output' = EmptyTable
    /\ pc' = "loaded"
    /\ strategy_index' = 1
    /\ order_by_columns' = <<>>
    /\ set_index' = 0
    /\ to_redact' = {}
    /\ iterations' = 0
    /\ kernel_calls' = 0
    /\ final_source_table' = "dataset"
    /\ written' = EmptyTable
    /\ redactions' = NoRedactions
    /\ config' = new_config
    /\ index' = 0
    /\ source_file_to_table_lkp' = EmptyTable
    /\ retained' = NothingRetained
    /\ flagged' = {}
    /\ UNCHANGED <<decision, dataset, metrics, table_name, cache_tables_in_memory>>

\* the engine runs again on identical input
run_again_same_input == second_process(config, source)

InitSameInput ==
    /\ Init
    /\ config.suppression_strategies[1].non_summable_dimensions = {}
    /\ ~config.suppression_strategies[1].first_order_only

NextSameInput == Next \/ run_again_same_input

SpecSameInput == InitSameInput /\ [][NextSameInput]_vars

\* the engine runs again on the input extended with rows of a later month,
\* one of them a small cell
RowsOfLaterMonths ==
    LET later == {c \in Grid : \A b \in DOMAIN source : c["month"] > b["month"]}
    IN {f \in UNION {[S -> Incidences] : S \in SUBSET later \ {{}}} :
           /\ Cardinality(DOMAIN f) + Cardinality(DOMAIN source) <= MaxCells
           /\ \E c \in DOMAIN f : redaction_expression(config, f[c])}

run_again_extended_input ==
    \E added \in RowsOfLaterMonths : second_process(config, source @@ added)

InitExtendedInput ==
    /\ Init
    /\ config.redaction_order_dimensions # <<>>
    /\ config.suppression_strategies[1].non_summable_dimensions = {}
    /\ ~config.suppression_strategies[1].first_order_only
    /\ \A c \in DOMAIN source : c["month"] < NumMonths

NextExtendedInput == Next \/ run_again_extended_input

SpecExtendedInput == InitExtendedInput /\ [][NextExtendedInput]_vars

BothEmitted == process = 2 /\ pc = "emitted"

\* C9 (stability under added data): with redaction_order_dimensions
\* configured, every cell redacted for the original input is redacted for the
\* input extended with rows later in the redaction order.
C9_Stability ==
    BothEmitted =>
        \A c \in DOMAIN first_written :
            first_written[c].is_redacted => written[c].is_redacted

\* C8 (determinism): two runs of the engine on identical input rows, metrics,
\* predicate and redaction_order_dimensions emit identical is_redacted,
\* redaction_reason, peer_group and redacted_peers for every cell.
C8_Determinism == BothEmitted => written = first_written

\* ------------------------------------- the two strategies on the same input
\* the engine runs again on identical input with the strategy
\* replace-with-redacted in place of mark-redacted, same parameters
run_again_replace_with_redacted ==
    /\ CurrentStrategyIsMark
    /\ \E st \in ReplaceWithRedactedStrategies :
          /\ st.redacted_dimension = RedactedDimension
          /\ st.non_summable_dimensions = NonSummable
          /\ second_process([config EXCEPT !.suppression_strategies = <<st>>], source)

NextBothStrategies == Next \/ replace_with_redacted \/ run_again_replace_with_redacted

SpecBothStrategies == Init /\ [][NextBothStrategies]_vars

FlaggedByMarkRedacted == {c \in DOMAIN first_written : first_written[c].is_redacted}

MaskedByReplaceWithRedacted ==
    {c \in DOMAIN source : IsRewritten(c, RedactedDimension, redactions[RedactedDimension])}

\* C10 (strategy equivalence): on identical inputs the coordinates whose target
\* value replace-with-redacted rewrites to the masking value include every
\* coordinate mark-redacted flags, and the two sets are equal when mark-redacted
\* has no non_summable_dimensions.
C10_StrategyEquivalence ==
    BothEmitted =>
        /\ FlaggedByMarkRedacted \subseteq MaskedByReplaceWithRedacted
        /\ NonSummable = {} => FlaggedByMarkRedacted = MaskedByReplaceWithRedacted

\* ------------------------------------------- replace-with-redacted on its own
ReplaceIncidences == {5, 20, 30}

ReplaceSourceTables ==
    UNION {[S -> ReplaceIncidences] :
             S \in {T \in SUBSET Grid : Cardinality(T) \in 1..MaxCells}}

InitReplace ==
    /\ config \in [threshold : {DEFAULT_THRESHOLD},
                    redaction_expression : {Null},
                    allow_zeroes : {TRUE},
                    dimensions : {active_dimensions},
                    redaction_order_dimensions : RedactionOrderChoices,
                    suppression_strategies :
                        {<<st>> : st \in {r \in ReplaceWithRedactedStrategies :
                                             r.non_summable_dimensions = {}}}]
    /\ source \in ReplaceSourceTables
    /\ catalog = {"dataset"}
    /\ result = EmptyTable
    /\ output = EmptyTable
    /\ pc = "loaded"
    /\ strategy_index = 1
    /\ order_by_columns = <<>>
    /\ set_index = 0
    /\ to_redact = {}
    /\ iterations = 0
    /\ kernel_calls = 0
    /\ final_source_table = "dataset"
    /\ written = EmptyTable
    /\ redactions = NoRedactions
    /\ process = 1
    /\ first_written = EmptyTable
    /\ SingleDataset

NextReplace == run_aggregation \/ replace_with_redacted \/ write_anonymized_dataset

SpecReplace == InitReplace /\ [][NextReplace]_vars

PeerGroups(res, dimension) == {CellsOfPeer(res, c, dimension) : c \in DOMAIN res}

NonAnonymousCells(res, P) == {c \in P : ~res[c].is_anonymous}

\* a peer group with at least two target values, one of them non-anonymous
NeedsTwoRedactions(res, P) == Cardinality(P) >= 2 /\ NonAnonymousCells(res, P) # {}

\* the cells of P whose target value is among the masked values, and what the
\* claim asks of them
TwoRedactionsEnforced(res, P, masked) ==
    LET hidden == {c \in P : c[RedactedDimension] \in masked}
        anonymous == P \ NonAnonymousCells(res, P)
    IN /\ Cardinality(hidden) >= 2
       /\ NonAnonymousCells(res, P) \subseteq hidden
       /\ (Cardinality(NonAnonymousCells(res, P)) = 1 /\ anonymous # {}) =>
              \E c \in anonymous \cap hidden :
                  \A b \in anonymous : res[c].incidence <= res[b].incidence

RewrittenCells(P) ==
    {c \in P : IsRewritten(c, RedactedDimension, redactions[RedactedDimension])}

\* C11 (two-redaction enforcement): for every peer group of the aggregated
\* table with at least two target values, one of them non-anonymous,
\* _collect_redactions_from_peer_relation masks every non-anonymous value and
\* at least two values in all (the smallest anonymous value when only one is
\* non-anonymous), for either value of must_anonymize_next on entry; and the
\* redactions replace-with-redacted has collected rewrite at least two cells
\* of every such group.
C11_TwoRedactionEnforcement ==
    /\ (pc = "strategies" /\ strategy_index = 1) =>
          \A P \in PeerGroups(result, RedactedDimension) : \A man \in BOOLEAN :
              NeedsTwoRedactions(result, P) =>
                  TwoRedactionsEnforced(result, P,
                      Range(collect_redactions_from_peer_relation(
                                config, result, RedactedDimension, P, man).values_to_mask))
    /\ pc = "emitted" =>
          LET initial == initial_aggregation(config, source)
          IN \A P \in PeerGroups(initial, RedactedDimension) :
                 NeedsTwoRedactions(initial, P) =>
                     TwoRedactionsEnforced(initial, P,
                         {c[RedactedDimension] : c \in RewrittenCells(P)})

C11_Witness ==
    /\ pc = "emitted"
    /\ \E P \in PeerGroups(initial_aggregation(config, source), RedactedDimension) :
          /\ Cardinality(P) = 3
          /\ Cardinality(NonAnonymousCells(initial_aggregation(config, source), P)) = 1
          /\ Cardinality(RewrittenCells(P)) = 2

\* C12 (no small cell keeps its target value): in the table emitted after
\* replace-with-redacted every cell with is_anonymous = false has the masking
\* value in the target dimension, and every cell that was non-anonymous in the
\* initial aggregation has had its target value rewritten.
C12_NoSmallCellKeepsTarget ==
    pc = "emitted" =>
        /\ \A c \in DOMAIN written :
              ~written[c].is_anonymous => c[RedactedDimension] = MASKED
        /\ \A c \in DOMAIN source :
              ~initial_aggregation(config, source)[c].is_anonymous =>
                  IsRewritten(c, RedactedDimension, redactions[RedactedDimension])

C12_Witness ==
    /\ pc = "emitted"
    /\ \E c \in DOMAIN written : ~written[c].is_anonymous /\ c[RedactedDimension] = MASKED
    /\ \E c \in DOMAIN written : written[c].is_anonymous /\ c[RedactedDimension] # MASKED
    /\ \E c \in DOMAIN source : ~initial_aggregation(config, source)[c].is_anonymous

AnnotationColumns ==
    {"is_anonymous", "is_redacted", "redaction_reason", "peer_group", "redacted_peers"}

\* C13 (annotation columns): every row of the table emitted for a dataset
\* carries is_anonymous, is_redacted, redaction_reason, peer_group and
\* redacted_peers, whether mark-redacted or replace-with-redacted ran last.
C13_AnnotationColumns ==
    pc = "emitted" => \A c \in DOMAIN written : AnnotationColumns \subseteq DOMAIN written[c]

\* C14 (reason consistency): in every state of the output table under
\* mark-redacted, from its initial assignment to the emitted file, a cell has
\* is_redacted = true exactly when its redaction_reason is not null.
C14_ReasonConsistency ==
    /\ \A c \in DOMAIN output : output[c].is_redacted <=> output[c].redaction_reason # <<>>
    /\ \A c \in DOMAIN written : written[c].is_redacted <=> written[c].redaction_reason # <<>>

C14_Witness ==
    /\ pc = "emitted"
    /\ \E c \in DOMAIN written : ~written[c].is_anonymous /\ written[c].is_redacted
    /\ \E c \in DOMAIN written : written[c].is_anonymous /\ written[c].is_redacted
    /\ \E c \in DOMAIN written : ~written[c].is_redacted

\* ----------------------------------------- first_order_only on the same input
\* the engine runs again on identical input with first_order_only = true in
\* place of false
run_again_first_order_only ==
    /\ CurrentStrategyIsMark
    /\ ~config.suppression_strategies[1].first_order_only
    /\ second_process([config EXCEPT !.suppression_strategies[1].first_order_only = TRUE],
                      source)

InitFirstOrder ==
    /\ Init
    /\ ~config.suppression_strategies[1].first_order_only

NextFirstOrder == Next \/ run_again_first_order_only

SpecFirstOrder == InitFirstOrder /\ [][NextFirstOrder]_vars

\* C15 (first_order_only only reduces suppression): for the same input,
\* dimensions, predicate and target, every cell mark-redacted flags with
\* first_order_only = true is flagged with first_order_only = false.
C15_FirstOrderSubset ==
    BothEmitted =>
        \A c \in DOMAIN written : written[c].is_redacted => first_written[c].is_redacted

\* ------------------------------------------ threshold and allow_zeroes vary
Thresholds == {5, DEFAULT_THRESHOLD, 21}

ZeroIncidences == {0, 5, 20}

\* Engine.__init__: the state of a new engine apart from its configuration
\* and its source
FreshEngine ==
    /\ catalog = {"dataset"}
    /\ result = EmptyTable
    /\ output = EmptyTable
    /\ pc = "loaded"
    /\ strategy_index = 1
    /\ order_by_columns = <<>>
    /\ set_index = 0
    /\ to_redact = {}
    /\ iterations = 0
    /\ kernel_calls = 0
    /\ final_source_table = "dataset"
    /\ written = EmptyTable
    /\ redactions = NoRedactions
    /\ process = 1
    /\ first_written = EmptyTable
    /\ SingleDataset

PlainMarkRedacted ==
    {st \in MarkRedactedStrategies : st.non_summable_dimensions = {} /\ ~st.first_order_only}

InitConfigured ==
    /\ config \in [threshold : Thresholds,
                    redaction_expression : {Null},
                    allow_zeroes : BOOLEAN,
                    dimensions : {active_dimensions},
                    redaction_order_dimensions : {<<>>},
                    suppression_strategies : {<<st>> : st \in PlainMarkRedacted}]
    /\ source \in UNION {[S -> ZeroIncidences] :
                            S \in {T \in SUBSET Grid : Cardinality(T) \in 1..MaxCells}}
    /\ FreshEngine

SpecConfigured == InitConfigured /\ [][Next]_vars

\* C16 (default predicate honours the threshold): with no redaction_expression
\* configured, a cell of the aggregated table is non-anonymous exactly when
\* its first metric is strictly below config.threshold.
C16_DefaultPredicateUsesThreshold ==
    (pc # "loaded" /\ IsNull(config.redaction_expression)) =>
        \A c \in DOMAIN result :
            ~result[c].is_anonymous <=> result[c].incidence < config.threshold

\* C18 (allow_zeroes): with allow_zeroes = true a cell whose metric is 0 is
\* anonymous; with allow_zeroes = false it is non-anonymous and is redacted in
\* the emitted table.
C18_AllowZeroes ==
    /\ pc # "loaded" =>
          \A c \in DOMAIN result :
              result[c].incidence = 0 => (result[c].is_anonymous <=> config.allow_zeroes)
    /\ pc = "emitted" =>
          \A c \in DOMAIN written :
              (written[c].incidence = 0 /\ ~config.allow_zeroes) => written[c].is_redacted

\* the engine runs again on identical input with another config.threshold
run_again_other_threshold ==
    \E t \in Thresholds \ {config.threshold} :
        second_process([config EXCEPT !.threshold = t], source)

InitThresholdChange ==
    /\ config \in [threshold : Thresholds,
                    redaction_expression : {Some(DEFAULT_THRESHOLD)},
                    allow_zeroes : {TRUE},
                    dimensions : {active_dimensions},
                    redaction_order_dimensions : {<<>>},
                    suppression_strategies : {<<st>> : st \in PlainMarkRedacted}]
    /\ source \in SourceTables
    /\ FreshEngine

NextThresholdChange == Next \/ run_again_other_threshold

SpecThresholdChange == InitThresholdChange /\ [][NextThresholdChange]_vars

\* C17 (threshold ignored under a redaction_expression): two mark-redacted
\* runs with the same non-empty redaction_expression and the same input that
\* differ only in config.threshold give every cell the same is_anonymous and
\* the same is_redacted.
C17_ThresholdIgnored ==
    BothEmitted =>
        \A c \in DOMAIN written :
            /\ written[c].is_anonymous = first_written[c].is_anonymous
            /\ written[c].is_redacted = first_written[c].is_redacted

\* ------------------------------- strategies and datasets of every description
UnimplementedNames == {"merge-dimension-values", "reduce-dimensions", "fabricate-unit-records"}

UNKNOWN_STRATEGY == "no-such-strategy"

\* What a configuration can hold besides a complete mark-redacted or
\* replace-with-redacted: the strategies without an implementation, a
\* Strategy with an unknown name, MarkRedacted() without parameters, and
\* dicts the discriminated union rejected and the plain-list alternative of
\* DatasetConfig.suppression_strategies kept.
OtherStrategies ==
    {[strategy |-> n, held_as |-> "model"] : n \in UnimplementedNames \cup {UNKNOWN_STRATEGY, "mark-redacted"}}
    \cup {[strategy |-> n, held_as |-> "dict"] :
              n \in {"fabricate-unit-records", UNKNOWN_STRATEGY, "mark-redacted",
                      "replace-with-redacted"}}

AllStrategies ==
    PlainMarkRedacted
    \cup {r \in ReplaceWithRedactedStrategies : r.non_summable_dimensions = {}}
    \cup OtherStrategies

InitDatasets ==
    /\ config \in [threshold : {DEFAULT_THRESHOLD},
                    redaction_expression : {Null},
                    allow_zeroes : {TRUE},
                    dimensions : {active_dimensions, <<>>},
                    redaction_order_dimensions : {<<>>},
                    suppression_strategies : {<<st>> : st \in AllStrategies}]
    /\ source \in SourceTables
    /\ catalog = {}
    /\ result = EmptyTable
    /\ output = EmptyTable
    /\ pc = "constructed"
    /\ strategy_index = 1
    /\ order_by_columns = <<>>
    /\ set_index = 0
    /\ to_redact = {}
    /\ iterations = 0
    /\ kernel_calls = 0
    /\ final_source_table = "dataset"
    /\ written = EmptyTable
    /\ redactions = NoRedactions
    /\ process = 1
    /\ first_written = EmptyTable
    /\ Constructed(PlainDataset, FALSE)

\* Engine.run_one_dataset up to the initial aggregation: the dataset gets its
\* name and becomes the active one, and its source is loaded into a table of
\* that name unless a table is held in memory for its source file
load_source_table ==
    /\ pc = "constructed"
    /\ LET name == IF IsNull(dataset.name) THEN DefaultDatasetName(index) ELSE dataset.name[1]
           active == Activated([dataset EXCEPT !.name = Some(name)])
           in_memory == /\ ~IsNull(dataset.source_file)
                        /\ dataset.source_file[1] \in DOMAIN source_file_to_table_lkp
                        /\ cache_tables_in_memory
       IN /\ dataset' = active.dataset
          /\ metrics' = active.metrics
          /\ table_name' = name
          /\ catalog' = IF in_memory THEN catalog ELSE catalog \cup {name}
    /\ pc' = "loaded"
    /\ UNCHANGED <<flagged, decision, index, cache_tables_in_memory, source_file_to_table_lkp, retained,
                   processVars, inputVars, redactions, result, output, strategy_index,
                   kernelVars, final_source_table, written>>

\* Engine.run_aggregation(initial=True) with no dimension: the rendered query
\* selects and groups by nothing and the substrate rejects it
run_aggregation_fails ==
    /\ pc = "loaded"
    /\ config.dimensions = <<>>
    /\ pc' = "ParserException"
    /\ UNCHANGED <<flagged, decision, datasetVars, processVars, inputVars, redactions, catalog, result, output, strategy_index,
                   kernelVars, final_source_table, written>>

\* process_suppression_strategies: load_strategy_from_dict on a dict that
\* matches no member of SuppressionStrategy
load_strategy_from_dict_fails ==
    /\ pc = "strategies"
    /\ strategy_index <= Len(config.suppression_strategies)
    /\ IsDict(CurrentStrategy)
    /\ pc' = "ValidationError"
    /\ UNCHANGED <<flagged, decision, datasetVars, processVars, inputVars, redactions, catalog, result, output, strategy_index,
                   kernelVars, final_source_table, written>>

\* Engine.mark_redacted with parameters None, after modify_output_for_redaction
mark_redacted_fails ==
    /\ pc = "modified"
    /\ ~HasParameters(CurrentStrategy)
    /\ pc' = "AttributeError"
    /\ UNCHANGED <<flagged, decision, datasetVars, processVars, inputVars, redactions, catalog, result, output, strategy_index,
                   kernelVars, final_source_table, written>>

\* Engine.merge_dimension_values
merge_dimension_values ==
    /\ pc = "strategies"
    /\ strategy_index <= Len(config.suppression_strategies)
    /\ ~IsDict(CurrentStrategy)
    /\ CurrentStrategy.strategy = "merge-dimension-values"
    /\ pc' = "NotImplementedError"
    /\ UNCHANGED <<flagged, decision, datasetVars, processVars, inputVars, redactions, catalog, result, output, strategy_index,
                   kernelVars, final_source_table, written>>

\* Engine.process_one_suppression_strategy when no branch of the if/elif
\* chain matches: nothing happens and the loop moves on
process_no_branch ==
    /\ pc = "strategies"
    /\ strategy_index <= Len(config.suppression_strategies)
    /\ ~IsDict(CurrentStrategy)
    /\ CurrentStrategy.strategy \notin
          {"merge-dimension-values", "replace-with-redacted", "mark-redacted"}
    /\ strategy_index' = strategy_index + 1
    /\ UNCHANGED <<flagged, decision, datasetVars, processVars, inputVars, redactions, catalog, result, output, pc,
                   kernelVars, final_source_table, written>>

\* make_anonymized_dataset: the table the fallback aggregates,
\* table_name or self.connector.table_name in get_rendered_aggregation_query
FallbackTable == IF final_source_table = None THEN table_name ELSE final_source_table

FallbackRows == IF FallbackTable = retained.name THEN retained.rows ELSE source

FallbackColumns == IF FallbackTable = retained.name THEN retained.columns ELSE dataset.columns

\* what the substrate makes of the fallback query
FallbackOutcome ==
    IF FallbackTable \notin catalog THEN "CatalogException"
    ELSE IF ~Computable(metrics, FALSE, FallbackColumns) THEN "BinderException"
    ELSE "ok"

\* Engine.run_one_dataset after the strategies when no strategy created the
\* output: make_anonymized_dataset aggregates final_source_table under the
\* subsequent-phase metrics and registers the relation as output
write_aggregated_dataset ==
    /\ pc = "strategies"
    /\ strategy_index > Len(config.suppression_strategies)
    /\ "output" \notin catalog
    /\ FallbackOutcome = "ok"
    /\ write_output(aggregate(config, FallbackRows, redactions))

\* make_anonymized_dataset when the substrate rejects the fallback query:
\* final_source_table names no table, or a subsequent metric names a column
\* the table does not have
make_anonymized_dataset_fails ==
    /\ pc = "strategies"
    /\ strategy_index > Len(config.suppression_strategies)
    /\ "output" \notin catalog
    /\ FallbackOutcome # "ok"
    /\ pc' = FallbackOutcome
    /\ UNCHANGED <<flagged, decision, datasetVars, processVars, inputVars, redactions, catalog, result,
                   output, strategy_index, kernelVars, final_source_table, written>>

NextDatasets ==
    \/ load_source_table
    \/ run_aggregation
    \/ run_aggregation_fails
    \/ load_strategy_from_dict_fails
    \/ modify_output_for_redaction
    \/ mark_redacted_fails
    \/ kernel_enter
    \/ create_redaction_context
    \/ while_pass
    \/ while_exit
    \/ mark_redacted_return
    \/ replace_with_redacted
    \/ merge_dimension_values
    \/ process_no_branch
    \/ write_anonymized_dataset
    \/ write_aggregated_dataset

SpecDatasets == InitDatasets /\ [][NextDatasets]_vars

\* C19 (unimplemented strategies fail explicitly): a dataset whose strategy
\* list holds merge-dimension-values, reduce-dimensions or
\* fabricate-unit-records ends in a not-implemented error when that strategy
\* is processed: the loop never moves past it, no other error takes its
\* place and nothing is emitted.
C19_UnimplementedFailsExplicitly ==
    \A i \in 1..Len(config.suppression_strategies) :
        config.suppression_strategies[i].strategy \in UnimplementedNames =>
            /\ strategy_index <= i
            /\ pc \notin {"emitted", "ValidationError"}

Misconfigured ==
    \/ config.dimensions = <<>>
    \/ \E i \in 1..Len(config.suppression_strategies) :
          LET st == config.suppression_strategies[i]
          IN \/ st.strategy = UNKNOWN_STRATEGY
             \/ st.strategy \in {"mark-redacted", "replace-with-redacted"} /\ ~HasParameters(st)

\* C20 (configuration errors fail fast): a dataset with an unknown strategy
\* name, a mark-redacted or replace-with-redacted strategy without
\* redacted_dimension, or an empty dimension list is rejected at activation:
\* its source is never loaded, no aggregation runs, no table is created and
\* nothing is written.
C20_ConfigurationErrorsFailFast ==
    Misconfigured =>
        /\ pc \in {"constructed", "rejected"}
        /\ catalog = {}
        /\ result = EmptyTable
        /\ written = EmptyTable

\* ------------------------------------------- the decision function on its own
\* values of run_sum_by_axis - incidence: nothing before the row, less than
\* the threshold before it, more than the threshold before it
Remainders == {0, 5, 20}

MaskedValueCounts == 0..2

NullableBooleans == {Null, Some(TRUE), Some(FALSE)}

Arguments ==
    [incidence : Incidences,
     masked_value_count : MaskedValueCounts,
     minimum_threshold : {DEFAULT_THRESHOLD},
     is_anonymous : BOOLEAN,
     previous_cell_redacted : NullableBooleans,
     previous_cell_is_anonymous : NullableBooleans,
     remainder : Remainders,
     first_order_only : BOOLEAN]

InitDecision ==
    /\ decision \in [arguments : Arguments, called : {"no"}, returned : {Null}]
    /\ flagged = {}
    /\ config \in [threshold : {DEFAULT_THRESHOLD},
                    redaction_expression : {Null},
                    allow_zeroes : {TRUE},
                    dimensions : {active_dimensions},
                    redaction_order_dimensions : {<<>>},
                    suppression_strategies : {<<>>}]
    /\ source = EmptyTable
    /\ catalog = {}
    /\ result = EmptyTable
    /\ output = EmptyTable
    /\ pc = "constructed"
    /\ strategy_index = 1
    /\ order_by_columns = <<>>
    /\ set_index = 0
    /\ to_redact = {}
    /\ iterations = 0
    /\ kernel_calls = 0
    /\ final_source_table = "dataset"
    /\ written = EmptyTable
    /\ redactions = NoRedactions
    /\ process = 1
    /\ first_written = EmptyTable
    /\ dataset = Activated(PlainDataset).dataset
    /\ metrics = Activated(PlainDataset).metrics
    /\ table_name = "dataset"
    /\ index = 0
    /\ cache_tables_in_memory = FALSE
    /\ source_file_to_table_lkp = EmptyTable
    /\ retained = NothingRetained

\* utils.should_redact_along_axis called as a Python function
call_should_redact_along_axis ==
    /\ decision.called = "no"
    /\ LET a == decision.arguments
       IN decision' = [decision EXCEPT
             !.called = "python",
             !.returned = Some(should_redact_along_axis(
                 a.incidence, a.masked_value_count, a.minimum_threshold, a.is_anonymous,
                 a.previous_cell_redacted, a.previous_cell_is_anonymous,
                 a.incidence + a.remainder, a.first_order_only))]
    /\ UNCHANGED <<flagged, datasetVars, processVars, inputVars, redactions, catalog, result, output, pc,
                   strategy_index, kernelVars, final_source_table, written>>

\* the scalar function of the substrate evaluated on a row
select_should_redact_along_axis ==
    /\ decision.called = "no"
    /\ LET a == decision.arguments
       IN decision' = [decision EXCEPT
             !.called = "substrate",
             !.returned = registered_should_redact_along_axis(
                 a.incidence, a.masked_value_count, a.minimum_threshold, a.is_anonymous,
                 a.previous_cell_redacted, a.previous_cell_is_anonymous,
                 a.incidence + a.remainder, a.first_order_only)]
    /\ UNCHANGED <<flagged, datasetVars, processVars, inputVars, redactions, catalog, result, output, pc,
                   strategy_index, kernelVars, final_source_table, written>>

NextDecision == call_should_redact_along_axis \/ select_should_redact_along_axis

SpecDecision == InitDecision /\ [][NextDecision]_vars

\* C26 (first row of a partition is not latently redacted):
\* should_redact_along_axis returns false for every anonymous row whose
\* previous_cell_redacted is null, whatever the other arguments are.
C26_FirstRowNotRedacted ==
    (decision.called = "python" /\ decision.arguments.is_anonymous
        /\ IsNull(decision.arguments.previous_cell_redacted)) =>
        decision.returned = Some(FALSE)

\* C27 (decision after a redacted predecessor): for an anonymous row whose
\* previous_cell_redacted is true, should_redact_along_axis returns true
\* exactly when the remainder run_sum_by_axis - incidence is below
\* minimum_threshold, or it is not and masked_value_count < 2 and
\* (first_order_only is false or the previous cell is non-anonymous); for an
\* anonymous row whose previous_cell_redacted is false it returns false.  The
\* scalar function of the substrate answers the same on rows without a null.
C27_DecisionAfterRedactedPredecessor ==
    LET a == decision.arguments
        expected == \/ a.remainder < a.minimum_threshold
                    \/ /\ a.remainder >= a.minimum_threshold
                       /\ a.masked_value_count < 2
                       /\ (~a.first_order_only \/ a.previous_cell_is_anonymous = Some(FALSE))
        answered == \/ decision.called = "python"
                    \/ /\ decision.called = "substrate"
                       /\ ~IsNull(a.previous_cell_is_anonymous)
    IN (answered /\ a.is_anonymous) =>
          /\ a.previous_cell_redacted = Some(TRUE) => decision.returned = Some(expected)
          /\ a.previous_cell_redacted = Some(FALSE) => decision.returned = Some(FALSE)

C27_Witness ==
    /\ decision.called = "python"
    /\ decision.arguments.is_anonymous
    /\ decision.arguments.previous_cell_redacted = Some(TRUE)
    /\ decision.arguments.first_order_only
    /\ decision.arguments.previous_cell_is_anonymous = Some(TRUE)
    /\ decision.arguments.remainder >= decision.arguments.minimum_threshold
    /\ decision.arguments.masked_value_count < 2
    /\ decision.returned = Some(FALSE)

\* --------------------------------------------- datasets of every metric list
UNIT_LEVEL_ID == "id"

\* metric lists over unit-level rows: none configured, a single initial
\* metric without an alias, the explicit initial and subsequent pair, and
\* several initial metrics
UnitLevelMetricLists ==
    {<<>>,
     <<Metric("count", "*", Null, TRUE)>>,
     <<Metric("count", "*", Some(METRIC), TRUE), Metric("sum", METRIC, Some(METRIC), FALSE)>>,
     <<Metric("count", "*", Null, TRUE), Metric("count_distinct", UNIT_LEVEL_ID, Null, TRUE)>>}

\* metric lists over a pre-aggregated source: a single subsequent metric with
\* and without an alias, one that is_subsequent = false takes out of the
\* subsequent phase, and several subsequent metrics
PreAggregatedMetricLists ==
    {PlainMetrics,
     <<Metric("sum", METRIC, Null, FALSE)>>,
     <<[Metric("sum", METRIC, Some(METRIC), FALSE) EXCEPT !.is_subsequent = FALSE]>>,
     <<Metric("sum", METRIC, Some(METRIC), FALSE), Metric("max", METRIC, Null, FALSE)>>}

MetricDatasets ==
    {[name |-> n, metrics |-> ml, unit_level_id |-> u, source_file |-> Null,
      columns |-> {UNIT_LEVEL_ID}] :
        n \in {Null, Some("dataset")}, ml \in UnitLevelMetricLists,
        u \in {Null, Some(UNIT_LEVEL_ID)}}
    \cup {[name |-> n, metrics |-> ml, unit_level_id |-> Null, source_file |-> Null,
           columns |-> {METRIC}] :
             n \in {Null, Some("dataset")}, ml \in PreAggregatedMetricLists}

MetricStrategyLists ==
    {<<>>}
    \cup {<<st>> : st \in {m \in PlainMarkRedacted : m.redacted_dimension = "county"}}
    \cup {<<st>> : st \in {r \in ReplaceWithRedactedStrategies :
                              r.non_summable_dimensions = {} /\ r.redacted_dimension = "county"}}

InitMetrics ==
    /\ config \in [threshold : {DEFAULT_THRESHOLD},
                    redaction_expression : {Null},
                    allow_zeroes : {TRUE},
                    dimensions : {active_dimensions},
                    redaction_order_dimensions : {<<>>},
                    suppression_strategies : MetricStrategyLists]
    /\ source \in SourceTables
    /\ dataset \in MetricDatasets
    /\ metrics = <<>>
    /\ table_name = None
    /\ final_source_table = None
    /\ pc = "configured"
    /\ catalog = {}
    /\ result = EmptyTable
    /\ output = EmptyTable
    /\ strategy_index = 1
    /\ order_by_columns = <<>>
    /\ set_index = 0
    /\ to_redact = {}
    /\ iterations = 0
    /\ kernel_calls = 0
    /\ written = EmptyTable
    /\ redactions = NoRedactions
    /\ process = 1
    /\ first_written = EmptyTable
    /\ index = 0
    /\ cache_tables_in_memory = FALSE
    /\ source_file_to_table_lkp = EmptyTable
    /\ retained = NothingRetained
    /\ decision = Null
    /\ flagged = {}

\* Engine.__init__: the first dataset becomes the active one, the connector
\* takes its name and final_source_table is the connector's table name
construct_engine ==
    /\ pc = "configured"
    /\ dataset' = Activated(dataset).dataset
    /\ metrics' = Activated(dataset).metrics
    /\ table_name' = (IF IsNull(dataset.name) THEN None ELSE dataset.name[1])
    /\ final_source_table' = table_name'
    /\ pc' = "constructed"
    /\ UNCHANGED <<flagged, decision, index, cache_tables_in_memory, source_file_to_table_lkp, retained,
                   processVars, inputVars, redactions, catalog, result, output, strategy_index,
                   kernelVars, written>>

NextMetrics ==
    \/ construct_engine
    \/ load_source_table
    \/ run_aggregation
    \/ modify_output_for_redaction
    \/ kernel_enter
    \/ kernel_fails
    \/ create_redaction_context
    \/ while_pass
    \/ while_exit
    \/ mark_redacted_return
    \/ replace_with_redacted
    \/ replace_with_redacted_fails
    \/ write_anonymized_dataset
    \/ write_aggregated_dataset
    \/ make_anonymized_dataset_fails

SpecMetrics == InitMetrics /\ [][NextMetrics]_vars

ErrorStates == {"TypeError", "BinderException", "CatalogException", "AttributeError",
                "ValidationError", "ParserException", "NotImplementedError"}

\* C23 (fallback output): when the strategy list is empty the run ends
\* without an error and the emitted table is the initial aggregation: the
\* same cells with the same dimension values and the same metric totals as
\* result.
C23_FallbackOutput ==
    config.suppression_strategies = <<>> =>
        /\ pc \notin ErrorStates
        /\ pc = "emitted" =>
              /\ DOMAIN written = DOMAIN result
              /\ \A c \in DOMAIN result : written[c].incidence = result[c].incidence

\* C24 (metric invariant after activation): once the dataset is the active
\* one, every metric of the engine has a non-empty alias and each phase,
\* initial and subsequent, includes at least one metric under
\* should_include_in_initial_state.
C24_MetricInvariant ==
    pc # "configured" =>
        /\ \A i \in 1..Len(metrics) :
              ~IsNull(metrics[i].alias) /\ metrics[i].alias # Some("")
        /\ \A initial \in BOOLEAN :
              \E i \in 1..Len(metrics) : should_include_in_initial_state(metrics[i], initial)

\* C25 (default metrics run end to end): a dataset without metrics and with
\* a unit_level_id runs under mark-redacted without an error, and the engine's
\* metric list is count_distinct over the unit-level id for the initial phase
\* followed by sum over that metric's alias for the subsequent phase.
C25_DefaultMetricsRun ==
    (/\ pc # "configured"
     /\ dataset.metrics = <<>>
     /\ ~IsNull(dataset.unit_level_id)
     /\ Len(config.suppression_strategies) = 1
     /\ config.suppression_strategies[1].strategy = "mark-redacted") =>
        /\ pc \notin ErrorStates
        /\ metrics = <<[Metric("count_distinct", UNIT_LEVEL_ID, Some(DefaultAlias(0)), TRUE)
                           EXCEPT !.is_subsequent = FALSE],
                       Metric("sum", DefaultAlias(0), Some(DefaultAlias(0)), FALSE)>>

\* ---------------------------------------------- mark-redacted only annotates
\* the columns result carries: the dimensions are the key of a row
ResultColumns(table) ==
    [c \in DOMAIN table |->
        [incidence |-> table[c].incidence, is_anonymous |-> table[c].is_anonymous]]

\* C28 (mark-redacted only adds annotations): from modify_output_for_redaction
\* through every pass of the kernel to the emitted table, the output table has
\* the cells of the initial aggregation, each with the dimension values, the
\* metric value and the is_anonymous of result; what differs from result is
\* in is_redacted, redaction_reason, peer_group and redacted_peers only.
C28_OnlyAnnotations ==
    /\ "output" \in catalog =>
          /\ result = initial_aggregation(config, source)
          /\ ResultColumns(output) = result
    /\ pc = "emitted" => ResultColumns(written) = initial_aggregation(config, source)

\* an emitted table in which the kernel flagged an anonymous cell
C28_Witness ==
    /\ pc = "emitted"
    /\ kernel_calls > 0
    /\ \E c \in DOMAIN written : ~written[c].is_anonymous
    /\ \E c \in DOMAIN written :
          /\ written[c].is_anonymous
          /\ written[c].is_redacted
          /\ written[c].redaction_reason # <<>>

\* -------------------------------------------- several strategies in a dataset
\* DatasetConfig.suppression_strategies with two entries, each naming its own
\* redacted_dimension
StrategyPairs ==
    LET marks == {st \in MarkRedactedStrategies :
                     st.non_summable_dimensions = {} /\ ~st.first_order_only}
        replaces == {st \in ReplaceWithRedactedStrategies :
                        st.non_summable_dimensions = {}}
    IN {<<first, second>> : first \in marks, second \in marks \cup replaces}

InitStrategies ==
    /\ config \in [threshold : {DEFAULT_THRESHOLD},
                    redaction_expression : {Null},
                    allow_zeroes : {TRUE},
                    dimensions : {active_dimensions},
                    redaction_order_dimensions : {<<>>},
                    suppression_strategies : StrategyPairs]
    /\ source \in SourceTables
    /\ FreshEngine

NextStrategies == Next \/ replace_with_redacted

SpecStrategies == InitStrategies /\ [][NextStrategies]_vars

\* the row of the emitted table that holds a cell of the initial aggregation:
\* the cell itself, or the cell under the masking value
EmittedUnder(c) ==
    {n \in DOMAIN written :
        \A d \in DimensionNames : n[d] = c[d] \/ n[d] = MASKED}

\* C29 (redactions accumulate across strategies): in the emitted output of a
\* dataset with several strategies, every cell an earlier strategy flagged,
\* latently redacted cells included, is flagged or masked: its row carries
\* is_redacted = true, or its row is under the masking value in a dimension.
C29_RedactionsAccumulate ==
    pc = "emitted" =>
        \A c \in flagged :
            \E n \in EmittedUnder(c) :
                \/ \E d \in DimensionNames : n[d] = MASKED
                \/ "is_redacted" \in DOMAIN written[n] /\ written[n].is_redacted

\* ------------------------------------------------ a run over several datasets
\* the number of entries of Config.datasets
DatasetCount == 2

\* the first entry of Config.datasets: a pre-aggregated source, named or not
FirstDatasets == {[PlainDataset EXCEPT !.name = n] : n \in {Null, Some("dataset")}}

\* the sources a later dataset brings along when it names no source file
LaterSources == {src \in SourceTables : Cardinality(DOMAIN src) = 1}

\* a later entry of Config.datasets: it brings its own source, or its
\* source_file is the file an earlier dataset was written to
LaterDatasets(file) ==
    {[name |-> Some("second"), metrics |-> PlainMetrics, unit_level_id |-> Null,
      source_file |-> f, columns |-> {METRIC}] : f \in {Null, Some(file)}}

\* the rows of a file written from an output table
RowsOf(out) == [c \in DOMAIN out |-> out[c].incidence]

InitRun ==
    /\ config \in [threshold : {DEFAULT_THRESHOLD},
                    redaction_expression : {Null},
                    allow_zeroes : {TRUE},
                    dimensions : {active_dimensions},
                    redaction_order_dimensions : {<<>>},
                    suppression_strategies : MetricStrategyLists]
    /\ source \in SourceTables
    /\ dataset \in FirstDatasets
    /\ cache_tables_in_memory \in BOOLEAN
    /\ metrics = <<>>
    /\ table_name = None
    /\ final_source_table = None
    /\ pc = "configured"
    /\ catalog = {}
    /\ result = EmptyTable
    /\ output = EmptyTable
    /\ strategy_index = 1
    /\ order_by_columns = <<>>
    /\ set_index = 0
    /\ to_redact = {}
    /\ iterations = 0
    /\ kernel_calls = 0
    /\ written = EmptyTable
    /\ redactions = NoRedactions
    /\ process = 1
    /\ first_written = EmptyTable
    /\ index = 0
    /\ source_file_to_table_lkp = EmptyTable
    /\ retained = NothingRetained
    /\ decision = Null
    /\ flagged = {}

\* Engine.run: the loop moves on to the next entry of Config.datasets. The
\* engine is the same object: its redactions, its final_source_table, the
\* connector and its catalog are what the previous dataset left
next_dataset ==
    /\ pc = "emitted"
    /\ index + 1 < DatasetCount
    /\ \E ds \in LaterDatasets(OutputFile(table_name)), sts \in MetricStrategyLists :
          /\ dataset' = ds
          /\ config' = [config EXCEPT !.suppression_strategies = sts]
          /\ IF IsNull(ds.source_file)
             THEN source' \in LaterSources
             ELSE source' = RowsOf(written)
    /\ index' = index + 1
    /\ strategy_index' = 1
    /\ order_by_columns' = <<>>
    /\ set_index' = 0
    /\ to_redact' = {}
    /\ iterations' = 0
    /\ kernel_calls' = 0
    /\ flagged' = {}
    /\ pc' = "constructed"
    /\ UNCHANGED <<decision, metrics, table_name, cache_tables_in_memory,
                   source_file_to_table_lkp, retained, processVars, redactions, catalog,
                   result, output, final_source_table, written>>

NextRun ==
    \/ construct_engine
    \/ load_source_table
    \/ run_aggregation
    \/ modify_output_for_redaction
    \/ kernel_enter
    \/ create_redaction_context
    \/ while_pass
    \/ while_exit
    \/ mark_redacted_return
    \/ replace_with_redacted
    \/ replace_with_redacted_fails
    \/ write_anonymized_dataset
    \/ write_aggregated_dataset
    \/ make_anonymized_dataset_fails
    \/ next_dataset

SpecRun == InitRun /\ [][NextRun]_vars

\* C21 (no state leaks between datasets): a dataset after the first is
\* processed as a fresh engine would process it. Its initial aggregation is
\* the aggregation of its own source, without the redactions an earlier
\* dataset accumulated; and when it brings its own source and lists no
\* strategy, the run emits the aggregation of that source, whatever
\* final_source_table an earlier dataset left.
C21_NoLeakBetweenDatasets ==
    index > 0 =>
        /\ pc = "strategies" /\ strategy_index = 1 =>
              result = initial_aggregation(config, source)
        /\ /\ config.suppression_strategies = <<>>
           /\ IsNull(dataset.source_file)
           /\ pc \in {"emitted"} \cup ErrorStates
           => /\ pc = "emitted"
              /\ ResultColumns(written) = initial_aggregation(config, source)

\* the per-dataset transient tables
TransientTables == {"result", "identify_peers", "redaction_context", "output"}

\* with cache_tables_in_memory: the written output is retained under the
\* name of the dataset that was written, and a dataset whose source file is
\* the written file reads the retained table without loading a table
CacheRetainsOutput ==
    /\ pc = "constructed" =>
          /\ retained.name \in catalog
          /\ retained.rows = RowsOf(written)
          /\ DOMAIN source_file_to_table_lkp = {OutputFile(retained.name)}
          /\ source_file_to_table_lkp[OutputFile(retained.name)] = retained.name
    /\ pc = "loaded" /\ ~IsNull(dataset.source_file) =>
          /\ table_name \notin catalog
          /\ source = retained.rows

\* C22 (transient tables are cleaned up): when the next dataset starts, after
\* the output of the previous one was written, none of result,
\* identify_peers, redaction_context and output is in the catalog; with
\* cache_tables_in_memory the output is retained under the dataset's name and
\* a later dataset whose source file is the written file reads the retained
\* table.
C22_TransientTablesDropped ==
    index > 0 =>
        /\ pc = "constructed" => catalog \cap TransientTables = {}
        /\ cache_tables_in_memory => CacheRetainsOutput

\* ------------------------------------- the single-axis pass, peer by peer
\* values of the primary metric of a source row, zero among them
LocalityIncidences == {0, 5, 20}

\* a peer group of three rows next to a row of another peer group has room
LocalityCells == MaxCells + 1

LocalitySourceTables ==
    UNION {[S -> LocalityIncidences] :
             S \in {T \in SUBSET Grid : Cardinality(T) \in 1..LocalityCells}}

\* the default expression, and a configured expression that leaves empty
\* cells alone: "incidence > 0 and incidence < 11"
LocalityExpressions == {Null, <<0, DEFAULT_THRESHOLD>>}

InitLocality ==
    /\ config \in [threshold : {DEFAULT_THRESHOLD},
                    redaction_expression : LocalityExpressions,
                    allow_zeroes : {TRUE},
                    dimensions : {active_dimensions},
                    redaction_order_dimensions : {<<>>},
                    suppression_strategies :
                        {<<st>> : st \in {r \in ReplaceWithRedactedStrategies :
                                             r.non_summable_dimensions = {}}}]
    /\ source \in LocalitySourceTables
    /\ FreshEngine

SpecLocality == InitLocality /\ [][NextReplace]_vars

\* the rows of one peer group on their own
OnlyPeer(res, P) == [c \in P |-> res[c]]

\* must_anonymize_next on entry to each peer group, in the order of the loop
RECURSIVE EntryFlags(_, _, _, _, _, _)
EntryFlags(cfg, res, dimension, peers, k, must_anonymize_next) ==
    IF k > Len(peers) THEN <<>>
    ELSE <<must_anonymize_next>>
         \o EntryFlags(cfg, res, dimension, peers, k + 1,
                       collect_redactions_from_peer_relation(
                           cfg, res, dimension, peers[k],
                           must_anonymize_next).must_anonymize_next)

\* the values Engine.redactions masks in a peer group
MaskedInPeer(redaction_list, P, dimension) ==
    UNION {redaction_list[j].remapped_lookup :
             j \in {i \in 1..Len(redaction_list) :
                      \A c \in P : \A d \in DimensionNames \ {dimension} :
                          redaction_list[i].other_dimension_values[d] = c[d]}}

\* C30 (peer-group locality of the single-axis pass): the values the pass
\* masks in a peer group are those it masks when the table holds the rows of
\* that peer group only and must_anonymize_next is the same on entry; the
\* rows of the other peer groups make no difference.
C30_PeerGroupLocality ==
    pc = "strategies" /\ strategy_index > 1 =>
        LET res == initial_aggregation(config, source)
            dimension == config.suppression_strategies[1].redacted_dimension
            peers == SortedPeers(res, {CellsOfPeer(res, c, dimension) : c \in DOMAIN res},
                                 dimension, config.redaction_order_dimensions)
            flags == EntryFlags(config, res, dimension, peers, 1, FALSE)
        IN \A k \in 1..Len(peers) :
              MaskedInPeer(redactions[dimension], peers[k], dimension)
                = Range(collect_redactions_from_peer_relation(
                            config, OnlyPeer(res, peers[k]), dimension, peers[k],
                            flags[k]).values_to_mask)
====
